---- MODULE Spec2Model ----
(***************************************************************************)
(* Model of the recommendation client (frontend/src/App.jsx): the          *)
(* recommend request lifecycle, the normalize / filter / sort / paginate   *)
(* pipeline, the price-range mapper, the debounced prompt and the trust    *)
(* lookup.                                                                 *)
(*                                                                         *)
(* JavaScript values are modelled as follows.                              *)
(*   number     [t |-> "num", n, d]   the rational n/d, d > 0;             *)
(*                                    d = 0 is NaN                         *)
(*   string     [t |-> "str", s]      s the sequence of its characters     *)
(*   null       [t |-> "null"]                                             *)
(*   true/false [t |-> "bool", b]                                          *)
(*   undefined  [t |-> "undef"]                                            *)
(*   object     [t |-> "obj", f]      f the record of its fields           *)
(* A text that is only compared (a prompt's characters, an error message)  *)
(* is a sequence of characters or a TLA+ string.                           *)
(***************************************************************************)
EXTENDS Integers, Sequences, FiniteSets, TLC

(***************************************************************************)
(* Bounds of the model.                                                    *)
(***************************************************************************)
MaxRequests == 4      \* recommend requests issued in one run
MaxTrust == 2         \* trust lookups started in one run
MaxBundles == 2       \* bundle requests started in one run

(***************************************************************************)
(* Program constants.                                                      *)
(***************************************************************************)
PAGE_SIZE == 12
maxPrice == 100000
InitialPriceImportance == 30

(***************************************************************************)
(* JavaScript numbers.                                                     *)
(***************************************************************************)
Null == [t |-> "null"]
Undefined == [t |-> "undef"]
Num(n, d) == [t |-> "num", n |-> n, d |-> d]
Int2Num(i) == Num(i, 1)
NaN == Num(0, 0)
Str(s) == [t |-> "str", s |-> s]

IsNumber(v) == v.t = "num"                       \* typeof v === "number"
IsNaN(v) == v.t = "num" /\ v.d = 0
IsNullish(v) == v.t = "null" \/ v.t = "undef"
\* a ?? b
Coalesce(a, b) == IF IsNullish(a) THEN b ELSE a

\* a < b, a <= b on numbers; every comparison with NaN is false
NumLt(a, b) == a.d # 0 /\ b.d # 0 /\ a.n * b.d < b.n * a.d
NumLe(a, b) == a.d # 0 /\ b.d # 0 /\ a.n * b.d <= b.n * a.d
\* the sign of a - b: -1, 0, 1, and 2 when a - b is NaN
SubSign(a, b) ==
  IF a.d = 0 \/ b.d = 0 THEN 2
  ELSE IF a.n * b.d < b.n * a.d THEN -1
  ELSE IF a.n * b.d > b.n * a.d THEN 1
  ELSE 0
\* a number is falsy when it is 0 or NaN
NumFalsy(v) == v.d = 0 \/ v.n = 0

\* Math.round on the rational n/d (d > 0): the nearest integer, halves up
MathRound(n, d) == (2 * n + d) \div (2 * d)
Max(a, b) == IF a >= b THEN a ELSE b
Min(a, b) == IF a <= b THEN a ELSE b

(***************************************************************************)
(* Price-Range Mapper: the body of the priceImportance effect.             *)
(* (1 - i/100) * (maxPrice * 0.6) is ((100 - i) * maxPrice * 6) / 1000.    *)
(***************************************************************************)
MapperCenter(i) == MathRound((100 - i) * maxPrice * 6 + maxPrice * 2 * 100, 1000)
\* the span growing with the slider value: i / 100 in place of 1 - i / 100
MapperSpanRising(i) == MathRound(i * maxPrice * 4 + 500 * 1000, 1000)
MapperSpan(i) == MathRound((100 - i) * maxPrice * 4 + 500 * 1000, 1000)
\* the window without Math.max(0, ...) and Math.min(maxPrice, ...)
PriceRangeMapperUnclamped(i) ==
  LET center == MapperCenter(i)
      span == MapperSpan(i)
  IN << MathRound(2 * center - span, 2), MathRound(2 * center + span, 2) >>
PriceRangeMapper(i) ==
  LET center == MapperCenter(i)
      span == MapperSpan(i)
  IN << Max(0, MathRound(2 * center - span, 2)),
        Min(maxPrice, MathRound(2 * center + span, 2)) >>

(***************************************************************************)
(* Strings as character sequences.                                         *)
(***************************************************************************)
Digits == <<"0", "1", "2", "3", "4", "5", "6", "7", "8", "9">>
IsDigit(c) == \E i \in 1..10 : Digits[i] = c
DigitVal(c) == (CHOOSE i \in 1..10 : Digits[i] = c) - 1
IsDigitOrDot(c) == IsDigit(c) \/ c = "."
\* price.replace(/[^\d.]/g, "")
StripNonNumeric(s) == SelectSeq(s, IsDigitOrDot)

RECURSIVE DigitsValue(_)
DigitsValue(s) ==
  IF s = <<>> THEN 0
  ELSE 10 * DigitsValue(SubSeq(s, 1, Len(s) - 1)) + DigitVal(s[Len(s)])
RECURSIVE Pow10(_)
Pow10(k) == IF k = 0 THEN 1 ELSE 10 * Pow10(k - 1)

\* Number(s) for a string of digits and dots: "" is 0, "12", "12.", "1.5",
\* ".5" are decimal literals, anything else (".", "1.2.3") is NaN
StringToNumber(s) ==
  LET dots == {i \in 1..Len(s) : s[i] = "."}
  IN IF \E i \in 1..Len(s) : ~IsDigitOrDot(s[i]) THEN NaN
     ELSE IF dots = {} THEN Num(DigitsValue(s), 1)
     ELSE IF Cardinality(dots) > 1 \/ Len(s) = 1 THEN NaN
     ELSE LET p == CHOOSE i \in dots : TRUE
              frac == SubSeq(s, p + 1, Len(s))
          IN Num(DigitsValue(SubSeq(s, 1, p - 1) \o frac), Pow10(Len(frac)))

\* Number(v) for a model value
ToNumber(v) ==
  CASE v.t = "num" -> v
    [] v.t = "str" -> StringToNumber(v.s)
    [] v.t = "null" -> Int2Num(0)
    [] v.t = "bool" -> Int2Num(IF v.b THEN 1 ELSE 0)
    [] OTHER -> NaN

\* s.trim().length > 0
IsWhitespace(c) == c = " "
TrimNonEmpty(s) == \E i \in 1..Len(s) : ~IsWhitespace(s[i])

(***************************************************************************)
(* Response Normalizer: arr.map((p, idx) => ...) of fetchRecommendations.  *)
(***************************************************************************)
Obj(f) == [t |-> "obj", f |-> f]
\* p?.k : undefined unless p is an object that has the field
Get(p, k) == IF p.t = "obj" /\ k \in DOMAIN p.f THEN p.f[k] ELSE Undefined

RECURSIVE DigitsOf(_)
DigitsOf(n) ==
  IF n < 10 THEN <<Digits[n + 1]>>
  ELSE DigitsOf(n \div 10) \o <<Digits[(n % 10) + 1]>>
AsinFallback(idx) ==
  Str(<<"A", "S", "I", "N", "F", "A", "L", "L", "B", "A", "C", "K">> \o DigitsOf(idx))
UntitledProduct ==
  Str(<<"U", "n", "t", "i", "t", "l", "e", "d", " ", "p", "r", "o", "d", "u", "c", "t">>)

\* Number(x) || 0
NumberOrZero(v) == LET n == ToNumber(v) IN IF NumFalsy(n) THEN Int2Num(0) ELSE n

ParsedPrice(price) ==
  IF IsNumber(price) THEN price
  ELSE IF price.t = "str" /\ price.s # <<>>
       THEN LET n == StringToNumber(StripNonNumeric(price.s))
            IN IF NumFalsy(n) THEN Null ELSE n
       ELSE Null

\* What the callback leaves in place of a product when it throws: the
\* TypeError of a member access on null or undefined.  A product has no
\* field t.
TypeError == [t |-> "throw", message |-> "Cannot read properties of null"]
IsThrown(x) == "t" \in DOMAIN x
Throws(list) == \E i \in 1..Len(list) : IsThrown(list[i])

\* the callback reading p.price, p.asin, ... without the optional chaining
NormalizeOneStrict(p, idx, rnd) ==
  IF IsNullish(p) THEN TypeError
  ELSE
  LET price == Coalesce(Coalesce(Coalesce(Get(p, "price"), Get(p, "price_value")),
                                 Get(p, "pricing")), Null)
  IN [asin |-> Coalesce(Coalesce(Get(p, "asin"), Get(p, "ASIN")), AsinFallback(idx)),
      title |-> Coalesce(Coalesce(Coalesce(Get(p, "title"), Get(p, "name")),
                                  Get(p, "summary")), UntitledProduct),
      score |-> NumberOrZero(Coalesce(Coalesce(Get(p, "score"), Get(p, "similarity")),
                                      Int2Num(0))),
      reviews |-> NumberOrZero(Coalesce(Coalesce(Get(p, "reviews"), Get(p, "review_count")),
                                        Int2Num(rnd))),
      price |-> Coalesce(ParsedPrice(price), Null),
      image |-> Coalesce(Get(p, "image"), Null),
      raw |-> p]

\* One element p at 0-based index idx; rnd is the value Math.round(Math.random()
\* * 2000) takes for this element
NormalizeOne(p, idx, rnd) ==
  LET price == Coalesce(Coalesce(Coalesce(Get(p, "price"), Get(p, "price_value")),
                                 Get(p, "pricing")), Null)
  IN [asin |-> Coalesce(Coalesce(Get(p, "asin"), Get(p, "ASIN")), AsinFallback(idx)),
      title |-> Coalesce(Coalesce(Coalesce(Get(p, "title"), Get(p, "name")),
                                  Get(p, "summary")), UntitledProduct),
      score |-> NumberOrZero(Coalesce(Coalesce(Get(p, "score"), Get(p, "similarity")),
                                      Int2Num(0))),
      reviews |-> NumberOrZero(Coalesce(Coalesce(Get(p, "reviews"), Get(p, "review_count")),
                                        Int2Num(rnd))),
      price |-> Coalesce(ParsedPrice(price), Null),
      image |-> Coalesce(Get(p, "image"), Null),
      raw |-> p]

\* json is a model value; an array is [t |-> "arr", a |-> <<elements>>]
Arr(a) == [t |-> "arr", a |-> a]
EnsureArray(json) == IF json.t = "arr" THEN json.a ELSE <<>>
Normalize(arr, rnd) == [i \in 1..Len(arr) |-> NormalizeOne(arr[i], i - 1, rnd[i])]

(***************************************************************************)
(* Filter by priceRange.                                                   *)
(***************************************************************************)
\* the filter with the lower bound exclusive
PassesFilterExclusive(x, range) ==
  IF IsNumber(x.price) /\ ~IsNaN(x.price)
  THEN NumLt(Int2Num(range[1]), x.price) /\ NumLe(x.price, Int2Num(range[2]))
  ELSE TRUE
PassesFilter(x, range) ==
  IF IsNumber(x.price) /\ ~IsNaN(x.price)
  THEN NumLe(Int2Num(range[1]), x.price) /\ NumLe(x.price, Int2Num(range[2]))
  ELSE TRUE
FilterByPrice(list, range) == SelectSeq(list, LAMBDA x : PassesFilter(x, range))

(***************************************************************************)
(* Sort: filtered.sort((a, b) => ...).  Compare is the comparator's sign;  *)
(* a NaN result counts as 0.                                               *)
(***************************************************************************)
SortKeys == {"score", "price", "reviews"}
\* the comparator with the two early returns of the price key swapped
CompareAbsentFirst(a, b, sortBy) ==
  LET sign == IF sortBy = "price"
              THEN IF ~IsNumber(a.price) THEN -1
                   ELSE IF ~IsNumber(b.price) THEN 1
                   ELSE SubSign(a.price, b.price)
              ELSE IF sortBy = "reviews" THEN SubSign(b.reviews, a.reviews)
              ELSE SubSign(b.score, a.score)
  IN IF sign = 2 THEN 0 ELSE sign
Compare(a, b, sortBy) ==
  LET sign == IF sortBy = "price"
              THEN IF ~IsNumber(a.price) THEN 1
                   ELSE IF ~IsNumber(b.price) THEN -1
                   ELSE SubSign(a.price, b.price)
              ELSE IF sortBy = "reviews" THEN SubSign(b.reviews, a.reviews)
              ELSE SubSign(b.score, a.score)
  IN IF sign = 2 THEN 0 ELSE sign

\* The order of the result is the engine's when the comparator is not
\* consistent (two absent prices compare 1 both ways), so both kinds of engine
\* are modelled.
\*   "timsort":   V8.  Short arrays: the leading run is found (a strictly
\*                descending one is reversed), the rest is placed by binary
\*                insertion, each call being comparefn(pivot, element).
\*   "insertion": engines whose calls pass the earlier element first and swap
\*                two neighbours when comparefn(earlier, later) > 0.
Engines == {"timsort", "insertion"}

Reverse(s) == [i \in 1..Len(s) |-> s[Len(s) + 1 - i]]
InsertAt(s, k, x) == SubSeq(s, 1, k - 1) \o <<x>> \o SubSeq(s, k, Len(s))

\* length of the leading run of s (Len(s) >= 2), CountAndMakeRun
RECURSIVE RunEnd(_, _, _, _)
RunEnd(s, idx, descending, sortBy) ==
  IF idx > Len(s) THEN Len(s)
  ELSE LET order == Compare(s[idx], s[idx - 1], sortBy)
       IN IF (descending /\ order >= 0) \/ (~descending /\ order < 0) THEN idx - 1
          ELSE RunEnd(s, idx + 1, descending, sortBy)

\* the position (1-based) at which pivot is inserted into the sorted prefix
RECURSIVE BinarySearch(_, _, _, _, _)
BinarySearch(sorted, pivot, left, right, sortBy) ==
  IF left >= right THEN left
  ELSE LET mid == left + ((right - left) \div 2)
       IN IF Compare(pivot, sorted[mid], sortBy) < 0
          THEN BinarySearch(sorted, pivot, left, mid, sortBy)
          ELSE BinarySearch(sorted, pivot, mid + 1, right, sortBy)

RECURSIVE BinaryInsertionSort(_, _, _)
BinaryInsertionSort(sorted, rest, sortBy) ==
  IF rest = <<>> THEN sorted
  ELSE LET k == BinarySearch(sorted, Head(rest), 1, Len(sorted) + 1, sortBy)
       IN BinaryInsertionSort(InsertAt(sorted, k, Head(rest)), Tail(rest), sortBy)

TimSort(s, sortBy) ==
  IF Len(s) < 2 THEN s
  ELSE LET descending == Compare(s[2], s[1], sortBy) < 0
           n == RunEnd(s, 3, descending, sortBy)
           run == IF descending THEN Reverse(SubSeq(s, 1, n)) ELSE SubSeq(s, 1, n)
       IN BinaryInsertionSort(run, SubSeq(s, n + 1, Len(s)), sortBy)

\* x moves left past every neighbour that compares greater
RECURSIVE SinkLeft(_, _, _)
SinkLeft(sorted, x, sortBy) ==
  IF sorted = <<>> \/ Compare(sorted[Len(sorted)], x, sortBy) <= 0
  THEN Append(sorted, x)
  ELSE Append(SinkLeft(SubSeq(sorted, 1, Len(sorted) - 1), x, sortBy),
              sorted[Len(sorted)])
RECURSIVE InsertionSort(_, _, _)
InsertionSort(sorted, rest, sortBy) ==
  IF rest = <<>> THEN sorted
  ELSE InsertionSort(SinkLeft(sorted, Head(rest), sortBy), Tail(rest), sortBy)

ArraySort(s, sortBy, engine) ==
  IF engine = "timsort" THEN TimSort(s, sortBy) ELSE InsertionSort(<<>>, s, sortBy)

\* filter, sort: the value handed to setProducts
Sorted(normalized, range, sortBy, engine) ==
  ArraySort(FilterByPrice(normalized, range), sortBy, engine)
\* normalize, filter, sort
Pipeline(json, rnd, range, sortBy, engine) ==
  Sorted(Normalize(EnsureArray(json), rnd), range, sortBy, engine)

(***************************************************************************)
(* Pagination helpers.                                                     *)
(***************************************************************************)
\* Math.ceil(n / d) for n >= 0, d > 0
MathCeilDiv(n, d) == (n + d - 1) \div d
TotalPages(list) == Max(1, MathCeilDiv(Len(list), PAGE_SIZE))
\* list.slice(from, to), 0-based, to exclusive
Slice(list, from, to) == SubSeq(list, Min(from, Len(list)) + 1, Min(to, Len(list)))
\* the slice taken one item too far
ShownInclusive(list, pg) == Slice(list, (pg - 1) * PAGE_SIZE, pg * PAGE_SIZE + 1)
Shown(list, pg) == Slice(list, (pg - 1) * PAGE_SIZE, pg * PAGE_SIZE)

(***************************************************************************)
(* Inputs of the model: what the user types and picks, what the backend    *)
(* answers.                                                                *)
(***************************************************************************)
InitialPrompt == <<"l", "a", "p", "t", "o", "p">>
PromptInputs == {<<" ">>, <<"t", "v">>}
Sliders == {0, InitialPriceImportance}
RandomReviews == {0, 2000}

Chars(a, n) == Str(<<a, Digits[n + 1]>>)
\* [{asin: "A1", title: "X", score: 0.9, price: "1,200"},
\*  {asin: "A2", title: "Y", score: 0.5}]
ScenarioResponse ==
  Arr(<< Obj([asin |-> Chars("A", 1), title |-> Str(<<"X">>), score |-> Num(9, 10),
              price |-> Str(<<"1", ",", "2", "0", "0">>)]),
         Obj([asin |-> Chars("A", 2), title |-> Str(<<"Y">>), score |-> Num(5, 10)]) >>)
\* two priced products with every field given: nothing is drawn at random
CatalogResponse ==
  Arr(<< Obj([asin |-> Chars("A", 1), title |-> Str(<<"X">>), score |-> Num(9, 10),
              price |-> Int2Num(60000), reviews |-> Int2Num(5)]),
         Obj([asin |-> Chars("A", 2), title |-> Str(<<"Y">>), score |-> Num(5, 10),
              price |-> Str(<<"1", ",", "2", "0", "0">>), reviews |-> Int2Num(7)]) >>)
\* PAGE_SIZE + 1 products without a price: a list of two pages
LongResponse ==
  Arr([i \in 1..(PAGE_SIZE + 1) |->
         Obj([ASIN |-> Str(<<"B">> \o DigitsOf(i)), name |-> Str(<<"Z">>),
              similarity |-> Num(i, 100), review_count |-> Int2Num(100 - i)])])
\* a JSON value that is no array
ObjectResponse == Obj([error |-> Str(<<"n", "o">>)])
Responses == {ScenarioResponse, CatalogResponse, LongResponse, ObjectResponse}

\* products priced at, just inside and just outside the bounds of the window of
\* slider value 50, one of them by a string, and one without a price
WindowResponse ==
  LET w == PriceRangeMapper(50)
      item(i, price) == Obj([asin |-> Chars("W", i), title |-> Str(<<"X">>),
                             score |-> Num(i, 10), reviews |-> Int2Num(i),
                             price |-> price])
  IN Arr(<< item(1, Int2Num(w[1])),
            item(2, Int2Num(w[2])),
            item(3, Int2Num(w[1] - 1)),
            item(4, Int2Num(w[2] + 1)),
            item(5, Num(2 * w[1] + 1, 2)),
            item(6, Str(<<"6", "0", ",", "2", "5", "0">>)),
            Obj([asin |-> Chars("W", 7), title |-> Str(<<"X">>), score |-> Num(7, 10),
                 reviews |-> Int2Num(7)]) >>)

\* elements that are no product: null, an empty object, a number, and an object
\* whose fields have unexpected types
MalformedResponse ==
  Arr(<< Null,
         Obj([x \in {} |-> Null]),
         Int2Num(5),
         Obj([asin |-> Int2Num(123), title |-> Obj([en |-> Str(<<"X">>)]),
              score |-> Str(<<"a", "b", "c">>), reviews |-> [t |-> "bool", b |-> TRUE],
              price |-> [t |-> "bool", b |-> TRUE], image |-> Int2Num(5)]) >>)

\* one product per kind of source price: a number, zero, strings that hold a
\* number, zero, no digit, two dots, nothing, a boolean, and a price given as
\* price_value
PriceResponse ==
  LET item(i, price) == Obj([asin |-> Chars("P", i), title |-> Str(<<"X">>),
                             score |-> Num(i, 10), reviews |-> Int2Num(i),
                             price |-> price])
  IN Arr(<< item(1, Int2Num(1299)),
            item(2, Int2Num(0)),
            item(3, Str(<<"$", "1", ",", "2", "9", "9", ".", "5", "0">>)),
            item(4, Str(<<"0">>)),
            item(5, Str(<<"f", "r", "e", "e">>)),
            item(6, Str(<<"1", ".", "2", ".", "3">>)),
            item(7, Str(<<>>)),
            item(8, [t |-> "bool", b |-> TRUE]),
            Obj([asin |-> Chars("P", 9), title |-> Str(<<"X">>), score |-> Num(9, 10),
                 reviews |-> Int2Num(9), price_value |-> Int2Num(500)]) >>)

\* products that tie under every sort key: equal scores, equal review counts,
\* two without a price and two with the same price
TiesResponse ==
  LET tie(i) == [asin |-> Chars("T", i), title |-> Str(<<"X">>), score |-> Num(5, 10),
                 reviews |-> Int2Num(3)]
  IN Arr(<< Obj(tie(1)),
            Obj(tie(2)),
            Obj(tie(3) @@ [price |-> Int2Num(50000)]),
            Obj(tie(4) @@ [price |-> Int2Num(50000)]) >>)

\* two products without a price and two with one, a number and a string, in
\* every order the backend can send them
MixedProducts ==
  LET item(i) == [asin |-> Chars("M", i), title |-> Str(<<"X">>), score |-> Num(i, 10),
                  reviews |-> Int2Num(i)]
  IN << Obj(item(1) @@ [price |-> Int2Num(60000)]),
        Obj(item(2) @@ [price |-> Str(<<"4", "8", ",", "0", "0", "0">>)]),
        Obj(item(3)),
        Obj(item(4) @@ [price |-> Str(<<"f", "r", "e", "e">>)]) >>
Orders(n) == {p \in [1..n -> 1..n] : \A i, j \in 1..n : p[i] = p[j] => i = j}
MixedResponses ==
  {Arr([i \in 1..Len(MixedProducts) |-> MixedProducts[p[i]]]) :
     p \in Orders(Len(MixedProducts))}

\* two elements with the same asin, and an element whose asin is the one
\* synthesized for the element after it, which has none
RepeatedResponse ==
  LET item(asin, i) == Obj([asin |-> asin, title |-> Str(<<"X">>), score |-> Num(i, 10),
                            reviews |-> Int2Num(i)])
  IN Arr(<< item(Chars("D", 1), 1),
            item(Chars("D", 1), 2),
            item(AsinFallback(3), 3),
            Obj([title |-> Str(<<"Y">>), score |-> Num(4, 10), reviews |-> Int2Num(4)]) >>)

\* n products without a price; the lengths are those around the page
\* boundaries: no page, one item, full pages, full pages and one item
ListResponse(n) ==
  Arr([i \in 1..n |->
         Obj([ASIN |-> Str(<<"L">> \o DigitsOf(i)), name |-> Str(<<"Z">>),
              similarity |-> Num(i, 100), review_count |-> Int2Num(100 - i)])])
ListLengths == {0, 1, PAGE_SIZE, PAGE_SIZE + 1, 2 * PAGE_SIZE, 2 * PAGE_SIZE + 1}
ListResponses == {ListResponse(n) : n \in ListLengths}

\* the elements of an array answer that get a random review count
NeedsRandom(json) ==
  {i \in 1..Len(EnsureArray(json)) :
     IsNullish(Coalesce(Get(json.a[i], "reviews"), Get(json.a[i], "review_count")))}
RandomDraws(json) ==
  {[i \in 1..Len(EnsureArray(json)) |-> IF i \in NeedsRandom(json) THEN f[i] ELSE 0] :
     f \in [NeedsRandom(json) -> RandomReviews]}

\* How a recommend request fails: a non-success status with its body text, a
\* rejected fetch with the error's message, a body that is not JSON.
Failures ==
  {[kind |-> "status", status |-> 500, text |-> "server down"],
   [kind |-> "status", status |-> 404, text |-> ""],
   [kind |-> "network", message |-> "Failed to fetch"],
   [kind |-> "network", message |-> ""],
   [kind |-> "json"]}
BadResponse(status) == IF status = 404 THEN "Bad response: 404" ELSE "Bad response: 500"
\* e.message of the Error thrown inside the try block
ThrownMessage(f) ==
  CASE f.kind = "status" -> IF f.text # "" THEN f.text ELSE BadResponse(f.status)
    [] f.kind = "json" -> "Invalid JSON returned from /api/recommend"
    [] OTHER -> f.message
\* e.message alone, without the || fallback
ErrorTextNoFallback(f) == ThrownMessage(f)
\* e.message || "Failed to load recommendations"
ErrorText(f) ==
  IF ThrownMessage(f) # "" THEN ThrownMessage(f) ELSE "Failed to load recommendations"
\* a message as a JavaScript string value; its text is kept as a TLA+ string
Text(m) == [t |-> "str", s |-> m]

(***************************************************************************)
(* State.                                                                  *)
(***************************************************************************)
VARIABLES
  mounted,          \* the mount effects have run
  prompt,           \* useState("laptop")
  debouncedPrompt,  \* useDebounced(prompt, 450): its state v
  timer,            \* the pending setTimeout of useDebounced: Null, or the value it captured
  priceImportance,
  priceRange,
  sortBy,
  page,
  products,
  loading,
  error,            \* Null or Text(message)
  trustFor,         \* Null or [asin, loading, data]
  inflight,         \* recommend requests awaiting their response
  issued,           \* number of recommend requests issued so far
  trustInflight,    \* trust lookups awaiting their response
  trustStarted,     \* number of trust lookups started so far
  bundleInflight,   \* bundle requests awaiting their response
  bundleStarted,    \* number of bundle requests started so far
  alerts            \* the alert() calls made so far, in order

vars == <<mounted, prompt, debouncedPrompt, timer, priceImportance, priceRange, sortBy,
          page, products, loading, error, trustFor, inflight, issued, trustInflight,
          trustStarted, bundleInflight, bundleStarted, alerts>>
queryVars == <<prompt, debouncedPrompt, timer, priceImportance, priceRange, sortBy>>
trustVars == <<trustFor, trustInflight, trustStarted>>
bundleVars == <<bundleInflight, bundleStarted, alerts>>

Init ==
  /\ mounted = FALSE
  /\ prompt = InitialPrompt
  /\ debouncedPrompt = InitialPrompt
  /\ timer = Null
  /\ priceImportance = InitialPriceImportance
  /\ priceRange = <<0, 20000>>
  /\ sortBy = "score"
  /\ page = 1
  /\ products = <<>>
  /\ loading = FALSE
  /\ error = Null
  /\ trustFor = Null
  /\ inflight = {}
  /\ issued = 0
  /\ trustInflight = {}
  /\ trustStarted = 0
  /\ bundleInflight = {}
  /\ bundleStarted = 0
  /\ alerts = <<>>

(***************************************************************************)
(* fetchRecommendations up to its first await: the request carries what    *)
(* the closure captured (q, priceImportance, priceRange, sortBy).          *)
(***************************************************************************)
Request(seq, q, slider, range, sort) ==
  [seq |-> seq, q |-> q, slider |-> slider, range |-> range, sortBy |-> sort]

\* The invocations made by one handler, in order: reqs is the sequence of
\* <<q, slider, range, sortBy>> they captured.
Invoke(reqs) ==
  /\ issued + Len(reqs) <= MaxRequests
  /\ inflight' = inflight \cup
       {Request(issued + i, reqs[i][1], reqs[i][2], reqs[i][3], reqs[i][4]) :
          i \in 1..Len(reqs)}
  /\ issued' = issued + Len(reqs)
  /\ IF reqs = <<>>
     THEN UNCHANGED <<loading, error>>
     ELSE loading' = TRUE /\ error' = Null

\* the auto-fetch effect without its test of debouncedPrompt
AutoFetchAlways(dp, slider, range, sort) == << <<dp, slider, range, sort>> >>
\* the auto-fetch effect's call for a render with these values
AutoFetch(dp, slider, range, sort) ==
  IF TrimNonEmpty(dp) THEN << <<dp, slider, range, sort>> >> ELSE <<>>

(***************************************************************************)
(* Mount: the effects of the first render, in declaration order, and the   *)
(* render that setPriceRange causes.  The first render's closure holds     *)
(* the initial priceRange.                                                 *)
(***************************************************************************)
Mount ==
  /\ ~mounted
  /\ mounted' = TRUE
  /\ timer' = Str(prompt)                                   \* useDebounced
  /\ priceRange' = PriceRangeMapper(priceImportance)        \* price-range effect
  /\ Invoke(<< <<debouncedPrompt, priceImportance, priceRange, sortBy>> >>   \* mount effect
            \o AutoFetch(debouncedPrompt, priceImportance, priceRange, sortBy)
            \o AutoFetch(debouncedPrompt, priceImportance, priceRange', sortBy))
  /\ UNCHANGED <<prompt, debouncedPrompt, priceImportance, sortBy, page, products>>
  /\ UNCHANGED trustVars
  /\ UNCHANGED bundleVars

\* onChange of the search input, the effect of useDebounced not run again: the
\* pending timeout stays, with the value it captured
SetPromptKeepsTimer(p) ==
  /\ mounted
  /\ p # prompt
  /\ prompt' = p
  /\ timer' = IF timer = Null THEN Str(p) ELSE timer
  /\ UNCHANGED <<mounted, debouncedPrompt, priceImportance, priceRange, sortBy, page,
                 products, loading, error, inflight, issued>>
  /\ UNCHANGED trustVars
  /\ UNCHANGED bundleVars

\* onChange of the search input
SetPrompt(p) ==
  /\ mounted
  /\ p # prompt
  /\ prompt' = p
  /\ timer' = Str(p)               \* the effect clears the old timeout and sets one
  /\ UNCHANGED <<mounted, debouncedPrompt, priceImportance, priceRange, sortBy, page,
                 products, loading, error, inflight, issued>>
  /\ UNCHANGED trustVars
  /\ UNCHANGED bundleVars

\* the timeout of useDebounced elapses: setV(value), then the auto-fetch effect
\* when debouncedPrompt changed
DebounceFires ==
  /\ mounted
  /\ timer # Null
  /\ timer' = Null
  /\ debouncedPrompt' = timer.s
  /\ Invoke(IF timer.s # debouncedPrompt
            THEN AutoFetch(timer.s, priceImportance, priceRange, sortBy)
            ELSE <<>>)
  /\ UNCHANGED <<mounted, prompt, priceImportance, priceRange, sortBy, page, products>>
  /\ UNCHANGED trustVars
  /\ UNCHANGED bundleVars

\* onChange of the slider.  The render with the new priceImportance runs the
\* price-range effect and the auto-fetch effect (its closure still holds the old
\* priceRange); the render after setPriceRange runs the auto-fetch effect again.
SetPriceImportance(v) ==
  /\ mounted
  /\ v # priceImportance
  /\ priceImportance' = v
  /\ priceRange' = PriceRangeMapper(v)
  /\ Invoke(AutoFetch(debouncedPrompt, v, priceRange, sortBy)
            \o AutoFetch(debouncedPrompt, v, priceRange', sortBy))
  /\ UNCHANGED <<mounted, prompt, debouncedPrompt, timer, sortBy, page, products>>
  /\ UNCHANGED trustVars
  /\ UNCHANGED bundleVars

\* onChange of the sort select
SetSortBy(k) ==
  /\ mounted
  /\ k # sortBy
  /\ sortBy' = k
  /\ Invoke(AutoFetch(debouncedPrompt, priceImportance, priceRange, k))
  /\ UNCHANGED <<mounted, prompt, debouncedPrompt, timer, priceImportance, priceRange,
                 page, products>>
  /\ UNCHANGED trustVars
  /\ UNCHANGED bundleVars

\* the Search button: fetchRecommendations({ prompt }), disabled while loading
Search ==
  /\ mounted
  /\ ~loading
  /\ Invoke(<< <<prompt, priceImportance, priceRange, sortBy>> >>)
  /\ UNCHANGED <<mounted, page, products>>
  /\ UNCHANGED queryVars
  /\ UNCHANGED trustVars
  /\ UNCHANGED bundleVars

(***************************************************************************)
(* fetchRecommendations after its awaits.                                  *)
(***************************************************************************)
\* the success path without setPage(1)
RecommendOkKeepsPage(r, json, rnd, engine) ==
  /\ r \in inflight
  /\ inflight' = inflight \ {r}
  /\ LET normalized == Normalize(EnsureArray(json), rnd)
     IN IF Throws(normalized)
        THEN /\ error' = Text(TypeError.message)
             /\ products' = <<>>
        ELSE /\ products' = Sorted(normalized, r.range, r.sortBy, engine)
             /\ UNCHANGED error
  /\ loading' = FALSE
  /\ UNCHANGED <<mounted, page, issued>>
  /\ UNCHANGED queryVars
  /\ UNCHANGED trustVars
  /\ UNCHANGED bundleVars

\* res.ok and a JSON body: setProducts(sorted); setPage(1); finally
\* setLoading(false).  Normalize, filter and sort run inside the try block: an
\* exception thrown there ends in the catch block.
RecommendOk(r, json, rnd, engine) ==
  /\ r \in inflight
  /\ inflight' = inflight \ {r}
  /\ LET normalized == Normalize(EnsureArray(json), rnd)
     IN IF Throws(normalized)
        THEN /\ error' = Text(TypeError.message)
             /\ products' = <<>>
             /\ UNCHANGED page
        ELSE /\ products' = Sorted(normalized, r.range, r.sortBy, engine)
             /\ page' = 1
             /\ UNCHANGED error
  /\ loading' = FALSE
  /\ UNCHANGED <<mounted, issued>>
  /\ UNCHANGED queryVars
  /\ UNCHANGED trustVars
  /\ UNCHANGED bundleVars

\* the catch block without the finally clause
RecommendFailNoFinally(r, f) ==
  /\ r \in inflight
  /\ inflight' = inflight \ {r}
  /\ error' = Text(ErrorText(f))
  /\ products' = <<>>
  /\ UNCHANGED <<mounted, page, loading, issued>>
  /\ UNCHANGED queryVars
  /\ UNCHANGED trustVars
  /\ UNCHANGED bundleVars

\* the catch block: setError(...); setProducts([]); finally setLoading(false)
RecommendFail(r, f) ==
  /\ r \in inflight
  /\ inflight' = inflight \ {r}
  /\ error' = Text(ErrorText(f))
  /\ products' = <<>>
  /\ loading' = FALSE
  /\ UNCHANGED <<mounted, page, issued>>
  /\ UNCHANGED queryVars
  /\ UNCHANGED trustVars
  /\ UNCHANGED bundleVars

(***************************************************************************)
(* Pager buttons.                                                          *)
(***************************************************************************)
PrevPage ==
  /\ mounted
  /\ page # 1                                   \* disabled={page === 1}
  /\ page' = Max(1, page - 1)
  /\ UNCHANGED <<mounted, products, loading, error, inflight, issued>>
  /\ UNCHANGED queryVars
  /\ UNCHANGED trustVars
  /\ UNCHANGED bundleVars

NextPage ==
  /\ mounted
  /\ page # TotalPages(products)                \* disabled={page === totalPages}
  /\ page' = Min(TotalPages(products), page + 1)
  /\ UNCHANGED <<mounted, products, loading, error, inflight, issued>>
  /\ UNCHANGED queryVars
  /\ UNCHANGED trustVars
  /\ UNCHANGED bundleVars

(***************************************************************************)
(* Trust lookup: handleTrust and the modal's onClose.                      *)
(***************************************************************************)
\* How a trust lookup ends: a JSON body, a body that is not JSON, a non-success
\* status with its body text, a rejected fetch.
TrustOutcomes ==
  {[kind |-> "ok", json |-> Obj([trust_score |-> Int2Num(80)])],
   [kind |-> "badjson"],
   [kind |-> "status", status |-> 500, text |-> "server down"],
   [kind |-> "status", status |-> 500, text |-> ""],
   [kind |-> "network", message |-> "Failed to fetch"]}
\* the data of a lookup whose non-success status is reported without its body
TrustDataNoBody(o) ==
  CASE o.kind = "ok" -> o.json
    [] o.kind = "badjson" -> Obj([error |-> Text("Invalid JSON from /api/trust")])
    [] o.kind = "status" -> Obj([error |-> Text(BadResponse(o.status))])
    [] OTHER -> Obj([error |-> Text(o.message)])
TrustData(o) ==
  CASE o.kind = "ok" -> o.json
    [] o.kind = "badjson" -> Obj([error |-> Text("Invalid JSON from /api/trust")])
    [] o.kind = "status" ->
         Obj([error |-> Text(IF o.text # "" THEN o.text ELSE BadResponse(o.status))])
    [] OTHER -> Obj([error |-> Text(o.message)])

TrustState(asin, isLoading, data) == [asin |-> asin, loading |-> isLoading, data |-> data]

\* the Trust button of a product card of the page shown
HandleTrust(asin) ==
  /\ mounted
  /\ \E i \in 1..Len(Shown(products, page)) : Shown(products, page)[i].asin = asin
  /\ trustStarted < MaxTrust
  /\ trustStarted' = trustStarted + 1
  /\ trustFor' = TrustState(asin, TRUE, Null)
  /\ trustInflight' = trustInflight \cup {[id |-> trustStarted + 1, asin |-> asin]}
  /\ UNCHANGED <<mounted, page, products, loading, error, inflight, issued>>
  /\ UNCHANGED queryVars
  /\ UNCHANGED bundleVars

\* handleTrust after its awaits: both paths end in setTrustFor({asin, loading: false, data})
TrustCompletes(t, o) ==
  /\ t \in trustInflight
  /\ trustInflight' = trustInflight \ {t}
  /\ trustFor' = TrustState(t.asin, FALSE, TrustData(o))
  /\ UNCHANGED <<mounted, page, products, loading, error, inflight, issued, trustStarted>>
  /\ UNCHANGED queryVars
  /\ UNCHANGED bundleVars

\* onClose of TrustModal, rendered while trustFor is set
CloseTrust ==
  /\ trustFor # Null
  /\ trustFor' = Null
  /\ UNCHANGED <<mounted, page, products, loading, error, inflight, issued,
                 trustInflight, trustStarted>>
  /\ UNCHANGED queryVars
  /\ UNCHANGED bundleVars

(***************************************************************************)
(* Bundle request: handleGenerateBundle.                                   *)
(***************************************************************************)
\* A response body: its text, and what JSON.parse makes of the text (valid is
\* FALSE when JSON.parse throws).
Body(text, valid, parsed) == [text |-> text, valid |-> valid, parsed |-> parsed]
BundleBodies ==
  {Body("{\"detail\":\"rate limited\"}", TRUE, Obj([detail |-> Text("rate limited")])),
   Body("{\"detail\":\"rate limited\",\"error\":\"quota\"}", TRUE,
        Obj([detail |-> Text("rate limited"), error |-> Text("quota")])),
   Body("{\"error\":\"quota\"}", TRUE, Obj([error |-> Text("quota")])),
   Body("{\"detail\":null,\"error\":\"quota\"}", TRUE,
        Obj([detail |-> Null, error |-> Text("quota")])),
   Body("{\"detail\":\"\",\"error\":\"quota\"}", TRUE,
        Obj([detail |-> Text(""), error |-> Text("quota")])),
   Body("{\"detail\":429}", TRUE, Obj([detail |-> Int2Num(429)])),
   Body("{\"code\":7}", TRUE, Obj([code |-> Int2Num(7)])),
   Body("server down", FALSE, Null),
   Body("", FALSE, Null)}
\* How a bundle request ends: a JSON body, a body that is not JSON, a
\* non-success status with its body, a rejected fetch.
BundleOutcomes ==
  {[kind |-> "ok"], [kind |-> "badjson"], [kind |-> "network", message |-> "Failed to fetch"]}
  \cup {[kind |-> "status", status |-> 429, body |-> b] : b \in BundleBodies}

\* try { parsed = JSON.parse(text) } catch { parsed = null }
JsonParseOrNull(body) == IF body.valid THEN body.parsed ELSE Null
\* String(v), the message of new Error(v)
JsString(v) ==
  CASE v.t = "str" -> v.s
    [] v.t = "num" -> ToString(v.n)
    [] v.t = "bool" -> IF v.b THEN "true" ELSE "false"
    [] v.t = "null" -> "null"
    [] v.t = "undef" -> ""
    [] OTHER -> "[object Object]"
\* the error field read before the detail field
BundleDetailErrorFirst(o) ==
  LET parsed == JsonParseOrNull(o.body)
  IN Coalesce(Coalesce(Coalesce(Get(parsed, "error"), Get(parsed, "detail")),
                       Text(o.body.text)),
              Text("HTTP 429"))
\* parsed?.detail ?? parsed?.error ?? text ?? `HTTP ${res.status}`
BundleDetail(o) ==
  LET parsed == JsonParseOrNull(o.body)
  IN Coalesce(Coalesce(Coalesce(Get(parsed, "detail"), Get(parsed, "error")),
                       Text(o.body.text)),
              Text("HTTP 429"))
\* e.message of the Error caught
BundleMessage(o) ==
  CASE o.kind = "status" -> JsString(BundleDetail(o))
    [] o.kind = "badjson" -> "Invalid JSON from /api/generate_bundle"
    [] OTHER -> o.message
\* alert("Bundle generated ...") or alert("Bundle failed: " + e.message)
BundleAlert(o) ==
  IF o.kind = "ok" THEN [kind |-> "generated"]
  ELSE [kind |-> "failed", message |-> BundleMessage(o)]

\* the Generate bundle button: the request body is {prompt: debouncedPrompt}
GenerateBundle ==
  /\ mounted
  /\ bundleStarted < MaxBundles
  /\ bundleStarted' = bundleStarted + 1
  /\ bundleInflight' = bundleInflight \cup
       {[id |-> bundleStarted + 1, prompt |-> debouncedPrompt]}
  /\ UNCHANGED <<mounted, page, products, loading, error, inflight, issued, alerts>>
  /\ UNCHANGED queryVars
  /\ UNCHANGED trustVars

\* handleGenerateBundle after its awaits: one alert on either path
BundleCompletes(b, o) ==
  /\ b \in bundleInflight
  /\ bundleInflight' = bundleInflight \ {b}
  /\ alerts' = Append(alerts, BundleAlert(o))
  /\ UNCHANGED <<mounted, page, products, loading, error, inflight, issued, bundleStarted>>
  /\ UNCHANGED queryVars
  /\ UNCHANGED trustVars

(***************************************************************************)
(* Specifications.  Spec is the whole client.  The query variables are     *)
(* written by the query actions only and the trust variables by the trust  *)
(* actions only, so each part is also explored on its own, with the        *)
(* backend's answers drawn from the set named:                             *)
(*   SpecQuery     the recommend lifecycle under every control             *)
(*   SpecPaging    the pager, over answers that fill more than one page    *)
(*   SpecTrust     the trust lookup                                        *)
(*   SpecPipeline  one Search in flight for each slider value and sort     *)
(*                 key, answered by every answer                           *)
(***************************************************************************)
Respond(answers) ==
  \E r \in inflight :
    \/ \E f \in Failures : RecommendFail(r, f)
    \/ \E json \in answers, engine \in Engines :
         \E rnd \in RandomDraws(json) : RecommendOk(r, json, rnd, engine)

Controls ==
  \/ \E p \in PromptInputs : SetPrompt(p)
  \/ DebounceFires
  \/ \E v \in Sliders : SetPriceImportance(v)
  \/ \E k \in SortKeys : SetSortBy(k)
  \/ Search

Pager ==
  \/ PrevPage
  \/ NextPage

Trust ==
  \/ \E i \in 1..Len(products) : HandleTrust(products[i].asin)
  \/ \E t \in trustInflight, o \in TrustOutcomes : TrustCompletes(t, o)
  \/ CloseTrust

Bundle ==
  \/ GenerateBundle
  \/ \E b \in bundleInflight, o \in BundleOutcomes : BundleCompletes(b, o)

Next ==
  \/ Mount
  \/ Controls
  \/ Respond(Responses)
  \/ Pager
  \/ Trust
  \/ Bundle
Spec == Init /\ [][Next]_vars

NextQuery ==
  \/ Mount
  \/ Controls
  \/ Respond({CatalogResponse})
SpecQuery == Init /\ [][NextQuery]_vars

NextPaging ==
  \/ Mount
  \/ Search
  \/ Respond({LongResponse, ObjectResponse})
  \/ Pager
SpecPaging == Init /\ [][NextPaging]_vars

NextTrust ==
  \/ Mount
  \/ Respond({ScenarioResponse})
  \/ Trust
SpecTrust == Init /\ [][NextTrust]_vars

\* The client at rest on slider value i and sort key k (the price-range effect
\* has run, nothing is in flight), then Search.
InitPipeline ==
  \E i \in 0..100, k \in SortKeys :
    /\ mounted = TRUE
    /\ prompt = InitialPrompt
    /\ debouncedPrompt = InitialPrompt
    /\ timer = Null
    /\ priceImportance = i
    /\ priceRange = PriceRangeMapper(i)
    /\ sortBy = k
    /\ page = 1
    /\ products = <<>>
    /\ loading = FALSE
    /\ error = Null
    /\ trustFor = Null
    /\ inflight = {}
    /\ issued = 0
    /\ trustInflight = {}
    /\ trustStarted = 0
    /\ bundleInflight = {}
    /\ bundleStarted = 0
    /\ alerts = <<>>
NextPipeline ==
  \/ Search
  \/ Respond(Responses)
SpecPipeline == InitPipeline /\ [][NextPipeline]_vars

NextBundle ==
  \/ Mount
  \/ \E p \in PromptInputs : SetPrompt(p)
  \/ DebounceFires
  \/ Bundle
SpecBundle == Init /\ [][NextBundle]_vars

\* The same rest states, answered by the batches that exercise the pipeline's
\* rules one by one.
Batches == {WindowResponse, TiesResponse}
NextBatch ==
  \/ Search
  \/ Respond(Batches)
SpecBatch == InitPipeline /\ [][NextBatch]_vars

\* The same rest states, answered by one mix of priced and unpriced products
\* in every order.
NextOrder ==
  \/ Search
  \/ Respond(MixedResponses)
SpecOrder == InitPipeline /\ [][NextOrder]_vars

\* The client from its mount on, answered by what the normalizer has to cope
\* with.
Oddities == {MalformedResponse, ObjectResponse}
NextNormalize ==
  \/ Mount
  \/ Search
  \/ Respond(Oddities)
SpecNormalize == Init /\ [][NextNormalize]_vars

\* The client from its mount on, answered by products priced in every way.
NextPrices ==
  \/ Mount
  \/ Search
  \/ Respond({PriceResponse})
SpecPrices == Init /\ [][NextPrices]_vars

\* The pager over lists of every length around the page boundaries.
NextPages ==
  \/ Mount
  \/ Search
  \/ Respond(ListResponses)
  \/ Pager
SpecPages == Init /\ [][NextPages]_vars

\* The client from its mount on, answered by products that share an asin.
NextAsins ==
  \/ Mount
  \/ Search
  \/ Respond({RepeatedResponse})
SpecAsins == Init /\ [][NextAsins]_vars

\* Every request issued gets its response in the end: fetch settles.
LiveQuery == SpecQuery /\ WF_vars(Respond({CatalogResponse}))

(***************************************************************************)
(* Properties.                                                             *)
(***************************************************************************)
Asins(list) == [i \in 1..Len(list) |-> list[i].asin]
A1 == Chars("A", 1)
A2 == Chars("A", 2)
\* this step handles the response of the in-flight request r
Handled(r) == r \in inflight /\ inflight' = inflight \ {r}
\* the response of a request issued after r has been handled already
Superseded(r) == \E s \in (r.seq + 1)..issued : \A x \in inflight : x.seq # s
FailStep == \E r \in inflight, f \in Failures : RecommendFail(r, f)
OkStep(answers) ==
  \E r \in inflight, json \in answers, engine \in Engines :
    \E rnd \in RandomDraws(json) : RecommendOk(r, json, rnd, engine)

\* C1: a response that arrives after the response of a later request was
\* applied is discarded: it changes neither products, page nor error.
C1_StaleResponseDiscarded ==
  [][\A r \in inflight :
       (Handled(r) /\ Superseded(r)) => UNCHANGED <<products, page, error>>]_vars

\* C2: every request in flight will filter with the Price-Range Mapper's
\* output for the slider value it sends.
C2_FilterUsesMappedRange ==
  \A r \in inflight : r.range = PriceRangeMapper(r.slider)

\* C3: page stays within 1..totalPages.
C3_PageWithinBounds == 1 <= page /\ page <= TotalPages(products)

\* C4: a dismissed trust view stays absent until handleTrust is invoked again.
C4_DismissedStaysAbsent ==
  [][trustFor = Null => (trustFor' = Null \/ trustStarted' # trustStarted)]_vars

\* C5: the late result of a lookup superseded by a lookup for another asin is
\* not observed: it leaves TrustState as it is.
C5_SupersededLookupNotObserved ==
  [][\A t \in trustInflight :
       (/\ trustInflight' = trustInflight \ {t}
        /\ t.id < trustStarted
        /\ trustFor # Null
        /\ trustFor.asin # t.asin) => trustFor' = trustFor]_vars

\* C6: with priceImportance 0 and sort key best-match the scenario response
\* yields products [A1, A2].
C6_ScenarioBestMatch ==
  [][\A r \in inflight, engine \in Engines, rnd \in RandomDraws(ScenarioResponse) :
       (/\ r.slider = 0
        /\ r.sortBy = "score"
        /\ RecommendOk(r, ScenarioResponse, rnd, engine)) => Asins(products') = <<A1, A2>>]_vars

\* C7: with priceImportance 0 and sort key price the scenario response yields
\* both products, A1 before A2.
C7_ScenarioPriceSort ==
  [][\A r \in inflight, engine \in Engines, rnd \in RandomDraws(ScenarioResponse) :
       (/\ r.slider = 0
        /\ r.sortBy = "price"
        /\ RecommendOk(r, ScenarioResponse, rnd, engine)) => Asins(products') = <<A1, A2>>]_vars

\* C8: every invocation of fetchRecommendations sets loading and clears error,
\* every response handled clears loading, and loading always ends.
C8_LoadingLifecycle ==
  /\ [][issued' # issued => (loading' /\ error' = Null)]_vars
  /\ [][(\E r \in inflight : Handled(r)) => ~loading']_vars
  /\ (loading ~> ~loading)
C8_Witness ==
  /\ issued = MaxRequests
  /\ inflight = {}
  /\ ~loading
  /\ error # Null

\* C9: a failed recommend request leaves a non-empty error string and an empty
\* product list, and issues no request.
C9_FailureSetsError ==
  [][FailStep => (/\ error'.t = "str"
                  /\ error'.s # ""
                  /\ products' = <<>>
                  /\ issued' = issued
                  /\ inflight' \subseteq inflight)]_vars
C9_Witness ==
  /\ error # Null
  /\ products = <<>>
  /\ ~loading
  /\ issued - Cardinality(inflight) >= 2

\* C10: a successful recommend response leaves page = 1.
C10_SuccessResetsPage ==
  [][OkStep({LongResponse, ObjectResponse}) => page' = 1]_vars
C10_Witness ==
  /\ page = 1
  /\ Len(products) > PAGE_SIZE
  /\ issued - Cardinality(inflight) >= 2

\* the elements of a list, as a set
Elements(list) == {list[i] : i \in 1..Len(list)}
\* min <= price <= max on a present price n/d
InWindow(price, range) ==
  /\ range[1] * price.d <= price.n
  /\ price.n <= range[2] * price.d

\* C11: the filter keeps a product iff its price is absent or lies in the
\* window, both bounds inclusive; a product without a price is never dropped.
C11_FilterLaw ==
  [][\A r \in inflight, json \in Batches, engine \in Engines :
       \A rnd \in RandomDraws(json) :
       RecommendOk(r, json, rnd, engine) =>
         LET batch == Elements(Normalize(EnsureArray(json), rnd))
         IN /\ Elements(products') \subseteq batch
            /\ \A x \in batch :
                 x \in Elements(products') <=>
                   (x.price = Null \/ InWindow(x.price, r.range))]_vars
C11_Witness ==
  /\ \E i \in 1..Len(products) : products[i].price = Null
  /\ \E i \in 1..Len(products) : products[i].price = Int2Num(priceRange[1])
  /\ \E i \in 1..Len(products) : products[i].price = Int2Num(priceRange[2])
  /\ Len(products) = 5
\* C12: for every slider value 0..100 the price-range effect yields a window
\* [min, max] with 0 <= min <= max <= 100000.
C12_MapperRange ==
  /\ priceImportance \in 0..100
  /\ priceRange = PriceRangeMapper(priceImportance)
  /\ 0 <= priceRange[1]
  /\ priceRange[1] <= priceRange[2]
  /\ priceRange[2] <= 100000
C12_Witness ==
  /\ priceImportance = 0
  /\ priceRange = <<59750, 100000>>
  /\ issued > 0

\* C13: the mapper is monotonic: a larger slider value gives a window whose
\* min, max and width are no larger.
C13_MapperMonotonic ==
  \A j \in 0..100 :
    priceImportance < j =>
      LET w == PriceRangeMapper(j)
      IN /\ w[1] <= priceRange[1]
         /\ w[2] <= priceRange[2]
         /\ w[2] - w[1] <= priceRange[2] - priceRange[1]
C13_Witness ==
  /\ priceImportance = 99
  /\ priceRange = <<20150, 21050>>
  /\ issued > 0
\* C14: debouncedPrompt changes only when the pending timeout elapses, and to
\* the prompt as it has stood since the timeout was set; every prompt change
\* restarts the timeout, so a prompt that was replaced never becomes
\* debouncedPrompt.
C14_DebounceQuiet ==
  /\ [][debouncedPrompt' # debouncedPrompt =>
         (/\ timer # Null
          /\ timer' = Null
          /\ prompt' = prompt
          /\ debouncedPrompt' = prompt)]_vars
  /\ [][prompt' # prompt =>
         (/\ timer' = Str(prompt')
          /\ debouncedPrompt' = debouncedPrompt)]_vars
C14_Witness ==
  /\ debouncedPrompt = <<"t", "v">>
  /\ prompt = <<"t", "v">>
  /\ timer = Null

\* the requests issued by this step
Issued == inflight' \ inflight

\* C15: when debouncedPrompt changes to a value with a character that is not
\* whitespace, a recommend request with that value as its prompt is issued;
\* when it changes to an empty or blank value, none is.
C15_AutoFetchOnDebounce ==
  [][debouncedPrompt' # debouncedPrompt =>
       IF \E i \in 1..Len(debouncedPrompt') : debouncedPrompt'[i] # " "
       THEN /\ Issued # {}
            /\ \A r \in Issued : r.q = debouncedPrompt'
       ELSE /\ Issued = {}
            /\ issued' = issued]_vars
C15_Witness ==
  /\ debouncedPrompt = <<"t", "v">>
  /\ \E r \in inflight : r.q = <<"t", "v">> /\ r.seq = issued
\* C16: handleTrust(asin) sets TrustState to {asin, loading: true, data: null}
\* before it suspends; its response sets {asin, loading: false, data}, data
\* being the parsed JSON on success and {error: message} on failure, the
\* message of a non-success status with a body being the body text.
C16_TrustContract ==
  /\ [][trustStarted' # trustStarted =>
         \E t \in trustInflight' \ trustInflight :
           /\ t.id = trustStarted'
           /\ trustFor' = [asin |-> t.asin, loading |-> TRUE, data |-> Null]]_vars
  /\ [][\A t \in trustInflight, o \in TrustOutcomes :
         TrustCompletes(t, o) =>
           /\ trustFor'.asin = t.asin
           /\ trustFor'.loading = FALSE
           /\ CASE o.kind = "ok" -> trustFor'.data = o.json
                 [] o.kind = "status" /\ o.text # "" ->
                      trustFor'.data = Obj([error |-> Text(o.text)])
                 [] OTHER ->
                      /\ DOMAIN trustFor'.data.f = {"error"}
                      /\ trustFor'.data.f.error.t = "str"]_vars
C16_Witness ==
  trustFor = [asin |-> A1, loading |-> FALSE,
              data |-> Obj([error |-> Text("server down")])]
\* the message the precedence rule picks for a non-success body: its detail
\* field, else its error field (a field that is null counts as missing), else
\* the body text
Has(body, k) == body.valid /\ body.parsed.t = "obj" /\ k \in DOMAIN body.parsed.f
                /\ body.parsed.f[k] # Null
Expected(body) ==
  IF Has(body, "detail") THEN JsString(body.parsed.f.detail)
  ELSE IF Has(body, "error") THEN JsString(body.parsed.f.error)
  ELSE body.text

\* C17: a bundle request answered with a non-success status raises exactly one
\* error message, picked by precedence (detail, else error, else the body
\* text), and is not retried.
C17_BundleErrorPrecedence ==
  [][\A b \in bundleInflight, o \in BundleOutcomes :
       (o.kind = "status" /\ BundleCompletes(b, o)) =>
         /\ alerts' = Append(alerts, [kind |-> "failed", message |-> Expected(o.body)])
         /\ bundleStarted' = bundleStarted
         /\ bundleInflight' \subseteq bundleInflight]_vars
C17_Witness ==
  /\ bundleStarted = MaxBundles
  /\ bundleInflight = {}
  /\ alerts = << [kind |-> "failed", message |-> "rate limited"],
                 [kind |-> "failed", message |-> "quota"] >>
\* C18: the normalizer is total: an answer that is no array yields no product;
\* an array yields one product per element, in order, with the defaults in
\* place of what an element lacks, and no element sends the request to the
\* catch block.
C18_NormalizerTotal ==
  [][\A r \in inflight, json \in Oddities, engine \in Engines :
       \A rnd \in RandomDraws(json) :
         RecommendOk(r, json, rnd, engine) =>
           LET n == Normalize(EnsureArray(json), rnd)
           IN /\ error' = error
              /\ page' = 1
              /\ json.t # "arr" => products' = <<>>
              /\ json.t = "arr" =>
                   /\ Len(n) = Len(json.a)
                   /\ \A i \in 1..Len(n) :
                        /\ ~IsThrown(n[i])
                        /\ n[i].raw = json.a[i]
                        /\ json.a[i].t # "obj" =>
                             /\ n[i].asin = AsinFallback(i - 1)
                             /\ n[i].title = UntitledProduct
                             /\ n[i].score = Int2Num(0)
                             /\ n[i].reviews = Int2Num(rnd[i])
                             /\ n[i].price = Null
                             /\ n[i].image = Null
                   /\ Elements(products') \subseteq Elements(n)
                   /\ \A i \in 1..Len(n) :
                        n[i].price = Null => n[i] \in Elements(products')]_vars
C18_Witness ==
  /\ error = Null
  /\ Len(products) = 4
  /\ \E i \in 1..4 : products[i].raw = Null /\ products[i].asin = AsinFallback(0)
  /\ \E i \in 1..4 : products[i].raw = Int2Num(5) /\ products[i].asin = AsinFallback(2)
\* the source price of a response element: price, else price_value, else pricing
SourcePrice(p) ==
  IF p.t # "obj" THEN Null
  ELSE IF "price" \in DOMAIN p.f /\ ~IsNullish(p.f.price) THEN p.f.price
  ELSE IF "price_value" \in DOMAIN p.f /\ ~IsNullish(p.f.price_value) THEN p.f.price_value
  ELSE IF "pricing" \in DOMAIN p.f /\ ~IsNullish(p.f.pricing) THEN p.f.pricing
  ELSE Null
\* the price the parsing rule gives: a number as it is; a string as the number
\* its digits and dots parse to, absent only when that is no finite number;
\* anything else absent
RulePrice(price) ==
  IF price.t = "num" THEN price
  ELSE IF price.t = "str"
       THEN LET n == StringToNumber(StripNonNumeric(price.s))
            IN IF n.d = 0 THEN Null ELSE n
       ELSE Null

\* C19: every product's price is what the price parsing rule gives for its
\* source price; a string that parses to 0 gives the price 0, not an absent
\* price.
C19_PriceParsing ==
  \A i \in 1..Len(products) : products[i].price = RulePrice(SourcePrice(products[i].raw))
\* the position of x in a list that holds it once
Position(list, x) == CHOOSE k \in 1..Len(list) : list[k] = x
\* a and b have the same key: the same score, the same review count, the same
\* price or both no price
SameKey(a, b, key) ==
  LET same(x, y) == x.n * y.d = y.n * x.d
  IN IF key = "price"
     THEN IF a.price = Null \/ b.price = Null THEN a.price = b.price
          ELSE same(a.price, b.price)
     ELSE IF key = "reviews" THEN same(a.reviews, b.reviews)
     ELSE same(a.score, b.score)

\* C20: the sort is stable under each sort key: two products with the same key,
\* two products without a price under the price key included, keep the order
\* they have in the filtered list.
C20_SortStable ==
  [][\A r \in inflight, json \in Batches, engine \in Engines :
       \A rnd \in RandomDraws(json) :
         RecommendOk(r, json, rnd, engine) =>
           LET filtered == FilterByPrice(Normalize(EnsureArray(json), rnd), r.range)
           IN \A i, j \in 1..Len(filtered) :
                (i < j /\ SameKey(filtered[i], filtered[j], r.sortBy)) =>
                  Position(products', filtered[i]) < Position(products', filtered[j])]_vars
\* in list, every product with a price comes before every product without
\* one, and the prices do not decrease
PriceAscending(list) ==
  \A i, j \in 1..Len(list) :
    (i < j /\ list[j].price # Null) =>
      /\ list[i].price # Null
      /\ NumLe(list[i].price, list[j].price)

\* C21: when the response of a request made under the sort key price has been
\* handled, every product with a known price precedes every product with an
\* absent price in products, and the known prices are in non-decreasing order,
\* whatever the order of the response array.
C21_PriceAscending ==
  [][\A r \in inflight :
       (Handled(r) /\ r.sortBy = "price") => PriceAscending(products')]_vars
C21_Witness ==
  /\ sortBy = "price"
  /\ Len(products) = 4
  /\ products[1].price = Int2Num(48000)
  /\ products[2].price = Int2Num(60000)
  /\ products[3].price = Null
  /\ products[4].asin = Chars("M", 3)
\* C22: the asin values of the products are pairwise distinct, also when the
\* response array repeats an asin or holds an asin equal to a synthesized
\* ASINFALLBACK<index>.
C22_AsinsDistinct ==
  \A i, j \in 1..Len(products) : products[i].asin = products[j].asin => i = j
\* pages 1..k of list, one after the other
RECURSIVE Pages(_, _)
Pages(list, k) == IF k = 0 THEN <<>> ELSE Pages(list, k - 1) \o Shown(list, k)

\* C23: the pages 1..totalPages of products, page k being the slice
\* [(k-1)*12, k*12), concatenated in order, are products, and each page has at
\* most 12 items.
C23_PagesPartition ==
  /\ Pages(products, TotalPages(products)) = products
  /\ \A k \in 1..TotalPages(products) : Len(Shown(products, k)) <= PAGE_SIZE
C23_Witness ==
  /\ Len(products) = 2 * PAGE_SIZE + 1
  /\ page = 3
  /\ Len(Shown(products, page)) = 1
\* C24: the prompt in the body of a bundle POST is the text of the prompt input
\* at the moment Generate bundle is triggered, also within the quiet period
\* after an edit.
C24_BundleSendsPrompt ==
  [][\A b \in bundleInflight' \ bundleInflight : b.prompt = prompt]_vars
\* C25: while at least one recommend request is in flight, loading is true:
\* the completion of one request does not set loading to false while another
\* request still awaits its response.
C25_LoadingWhileInFlight == inflight # {} => loading

\* C26: when no recommend request is in flight, error is present only if
\* products is empty: the error of a failed request does not stay next to the
\* product list of a successful one.
C26_ErrorOnlyWithoutProducts ==
  (inflight = {} /\ error # Null) => products = <<>>
====
